---- MODULE Spec2Model ----
(***************************************************************************)
(* Model of the fetch/scrape orchestration layer of Aniplug:               *)
(*   - CircuitBreaker                      (server module, class)          *)
(*   - VideoScraper.scrapeWithRetry        (retry loop with linear backoff)*)
(*   - VideoScraper.scrapeVideoLinks / extractDirectLinks over the redis   *)
(*     result cache and the Bull task queue                                *)
(*   - the cached HianimeAPI.getVideoLinks wrapper                         *)
(*   - ProxyManager and BrowserPool.createBrowserPool                      *)
(*   - BrowserPool: the shared browserPool array, the queue processors,    *)
(*     scaleBrowserPool and rotateProxies                                  *)
(* Each subsystem has its own next-state relation over the shared state.   *)
(***************************************************************************)
EXTENDS Integers, Sequences, FiniteSets, TLC

(***************************************************************************)
(* Bounds of the model                                                     *)
(***************************************************************************)
NumCallers == 2
MaxTime == 6
MaxExtraFailures == 1
MaxAttempts == 3
CacheTtl == 1
MaxFetchTime == 3
NumHiCallers == 2
MaxProxies == 3
MaxCreate == 2
BROWSER_POOL_SIZE == 2
NumTasks == 3
MaxHandles == 8
CpuCount == 2
MaxForks == 4
MaxOver == 1
MaxRetries == 2
RATE_LIMIT == 2
WINDOW_SIZE == 2
LockTime == 2

Callers == 1..NumCallers

Null == -1

(***************************************************************************)
(* CircuitBreaker constructor arguments (maxFailures, cooldownPeriod), in  *)
(* clock ticks of the model.                                               *)
(***************************************************************************)
maxFailures == 2
cooldownPeriod == 1

VARIABLES
  now,              \* Date.now()
  state,            \* CircuitBreaker.state
  failureCount,     \* CircuitBreaker.failureCount
  lastFailureTime,  \* CircuitBreaker.lastFailureTime (Null until first trip)
  cbPc,             \* per caller: position inside execute(fn)
  startedIn,        \* per caller: breaker state when its fn was invoked
  trial,            \* per caller: this call made the OPEN -> HALF_OPEN move
  consecFailures,   \* history: failed executions since the last successful one
  seen,             \* history: state changes the breaker has made
  rPc,              \* scrapeWithRetry: position of the call
  rN,               \* scrapeWithRetry: the `attempts` argument
  ri,               \* scrapeWithRetry: loop variable i
  rCalls,           \* history: invocations of fn made by the call
  rErrs,            \* history: errors thrown by the attempts, in order
  rDelays,          \* history: delays passed to setTimeout, in order
  rFailAt,          \* history: time of the latest failed attempt
  rCallAt,          \* history: time of the latest invocation of fn
  rWakeAt,          \* time at which the pending setTimeout fires
  rOut,             \* value the call resolved with / error it rejected with
  redisStore,       \* redis: key -> [has, val, exp]
  taskQueue,        \* browserPool.taskQueue: jobs added and not yet finished
  circuitBreakers,  \* VideoScraper.circuitBreakers: target -> breaker state
  svlPc,            \* scrapeVideoLinks: position of the call
  svlQuery,         \* scrapeVideoLinks: the query argument
  src,              \* scrapeVideoLinks: per source, attempt index and status
  svlOut,           \* scrapeVideoLinks: value the call returned
  edlPc,            \* extractDirectLinks: position of the call
  edlUrl,           \* extractDirectLinks: the url argument
  edlOut,           \* extractDirectLinks: value the call returned
  svlHit,           \* history: the scrapeVideoLinks call returned the cached value
  edlHit,           \* history: the extractDirectLinks call returned the cached value
  hiCache,          \* hianime-api cache Map: episodeId -> [has, val]
  lastRequestTime,  \* HianimeAPI.lastRequestTime
  hiPc,             \* per caller: position inside the getVideoLinks wrapper
  hiEp,             \* per caller: the episodeId argument
  hiWakeAt,         \* per caller: time at which the rate-limit timer fires
  hiOut,            \* per caller: value the call returned
  hiStoredAt,       \* history: per episodeId, time of the latest cache.set
  hiStartAt,        \* history: time at which the latest upstream fetch started
  proxies,          \* ProxyManager.proxies
  currentIndex,     \* ProxyManager.currentIndex
  proxyHealth,      \* ProxyManager.proxyHealth: address -> health
  pmOut,            \* history: proxy returned by the latest getNextProxy call made
                    \* since the list and the health map last changed
  pmScanned,        \* history: entries the latest direct getNextProxy call looked at
  updSt,            \* history: how the latest updateProxies call ended
  crPc,             \* createBrowserPool: position of the call
  crSize,           \* createBrowserPool: the size argument
  crLaunch,         \* per handle: the --proxy-server argument of its launch
  crProxy,          \* per handle: browser._proxy
  crDone,           \* handles whose launch has resolved
  browserPool,      \* the module-level browserPool array (handles by creation number)
  closed,           \* handles on which browser.close() has been called
  nextId,           \* creation number of the next handle
  scPc,             \* per BrowserPool instance: position inside scaleBrowserPool
  scN,              \* per BrowserPool instance: additionalBrowsers
  rotPc,            \* rotateProxies: position of the call
  jobSt,            \* per task: state of its job in the Bull queue
  pJob,             \* per BrowserPool instance: job its processor is running (0: none)
  pBrowser,         \* per BrowserPool instance: handle the job runs on (0: none)
  pPage,            \* per BrowserPool instance: the job has a page open
  openPages,        \* pages opened by newPage() and not closed by page.close()
  workers,          \* cluster master: the workers list (process ids)
  killed,           \* cluster master: workers sent kill() that have not exited yet
  nextPid,          \* process id of the next cluster.fork()
  waiting,          \* number of jobs waiting in the 'scraping-tasks' queue
  jkCache,          \* service.js: the NodeCache, per endpoint
  jkPc,             \* per caller: position inside JikanService.request
  jkEp,             \* per caller: endpoint argument
  jkArg,            \* per caller: retries argument of the outermost call
  jkLeft,           \* per caller: retries argument of the current call
  jkFails,          \* per caller: attempts of the call that have failed
  jkErr,            \* per caller: error of the latest failed attempt
  jkOut,            \* per caller: value returned or error thrown
  rlCount,          \* redis: value of the key rate_limit:<ip> (0: no key)
  rlExpireAt,       \* redis: expiry time of the key (0: no expiry set)
  rlPending,        \* the request that created the key awaits redis.expire
  rlPassed,         \* requests counted on the present key and passed to next()
  rlDenied,         \* requests counted on the present key and answered 429
  loginAttempts,    \* user record in the database: loginAttempts
  lockUntil,        \* user record in the database: lockUntil (0: not set)
  docAttempts,      \* per caller: loginAttempts of its in-memory document
  docLockUntil,     \* per caller: lockUntil of its in-memory document
  cmpOut            \* outcome of the latest comparePassword call

cbVars == <<state, failureCount, lastFailureTime, cbPc, startedIn, trial,
            consecFailures, seen>>

retryVars == <<rPc, rN, ri, rCalls, rErrs, rDelays, rFailAt, rCallAt, rWakeAt, rOut>>

storeVars == <<redisStore, taskQueue, circuitBreakers>>

svlVars == <<svlPc, svlQuery, src, svlOut, svlHit>>

edlVars == <<edlPc, edlUrl, edlOut, edlHit>>

fetchVars == <<storeVars, svlVars, edlVars>>

hiVars == <<hiCache, lastRequestTime, hiPc, hiEp, hiWakeAt, hiOut, hiStoredAt, hiStartAt>>

pmVars == <<proxies, currentIndex, proxyHealth, pmOut, pmScanned, updSt>>

crVars == <<crPc, crSize, crLaunch, crProxy, crDone>>

poolVars == <<browserPool, closed, nextId, scPc, scN, rotPc, jobSt, pJob, pBrowser, pPage, openPages>>

masterVars == <<workers, killed, nextPid, waiting>>

baseVars == <<now, cbVars, retryVars, fetchVars, hiVars, pmVars, crVars, poolVars>>

jkVars == <<jkCache, jkPc, jkEp, jkArg, jkLeft, jkFails, jkErr, jkOut>>

rlVars == <<rlCount, rlExpireAt, rlPending, rlPassed, rlDenied>>

userVars == <<loginAttempts, lockUntil, docAttempts, docLockUntil, cmpOut>>

lateVars == <<masterVars, jkVars, rlVars, userVars>>

vars == <<baseVars, lateVars>>

notCB == <<now, retryVars, fetchVars, hiVars, pmVars, crVars, poolVars, lateVars>>

notRetry == <<now, cbVars, fetchVars, hiVars, pmVars, crVars, poolVars, lateVars>>

notFetch == <<now, cbVars, retryVars, hiVars, pmVars, crVars, poolVars, lateVars>>

notHi == <<now, cbVars, retryVars, fetchVars, pmVars, crVars, poolVars, lateVars>>

notProxy == <<now, cbVars, retryVars, fetchVars, hiVars, poolVars, lateVars>>

notPool == <<now, cbVars, retryVars, fetchVars, hiVars, pmVars, crVars, lateVars>>

(***************************************************************************)
(* CircuitBreaker                                                          *)
(***************************************************************************)
CBStates == {"CLOSED", "OPEN", "HALF_OPEN"}

\* elapsedTime: Date.now() - this.lastFailureTime (null coerces to 0)
ElapsedTime(t, lft) == t - (IF lft = Null THEN 0 ELSE lft)

CooldownElapsed_Mut(t, lft) == ElapsedTime(t, lft) >= cooldownPeriod

\* elapsedTime > this.cooldownPeriod
CooldownElapsed(t, lft) == ElapsedTime(t, lft) > cooldownPeriod

StateAfterSuccess_Mut(s) == "CLOSED"

\* if (this.state === 'HALF_OPEN') this.state = 'CLOSED'
StateAfterSuccess(s) == IF s = "HALF_OPEN" THEN "CLOSED" ELSE s

CountAfterSuccess_Mut(s, c) == 0

\* if (this.state === 'HALF_OPEN') this.failureCount = 0
CountAfterSuccess(s, c) == IF s = "HALF_OPEN" THEN 0 ELSE c

\* this.failureCount >= this.maxFailures
Trips(c) == c >= maxFailures

Note(s, t) == IF s = t THEN seen ELSE seen \cup {<<s, t>>}

CBInit ==
  /\ state = "CLOSED"
  /\ failureCount = 0
  /\ lastFailureTime = Null
  /\ cbPc = [p \in Callers |-> "idle"]
  /\ startedIn = [p \in Callers |-> "none"]
  /\ trial = [p \in Callers |-> FALSE]
  /\ consecFailures = 0
  /\ seen = {}

\* execute(fn) up to and including the synchronous invocation of fn
ExecuteEnter(p) ==
  /\ cbPc[p] = "idle"
  /\ IF state = "OPEN"
       THEN IF CooldownElapsed(now, lastFailureTime)
              THEN /\ state' = "HALF_OPEN"
                   /\ cbPc' = [cbPc EXCEPT ![p] = "running"]
                   /\ startedIn' = [startedIn EXCEPT ![p] = "HALF_OPEN"]
                   /\ trial' = [trial EXCEPT ![p] = TRUE]
                   /\ seen' = Note(state, "HALF_OPEN")
              ELSE /\ cbPc' = [cbPc EXCEPT ![p] = "unavailable"]
                   /\ UNCHANGED <<state, startedIn, trial, seen>>
       ELSE /\ cbPc' = [cbPc EXCEPT ![p] = "running"]
            /\ startedIn' = [startedIn EXCEPT ![p] = state]
            /\ trial' = [trial EXCEPT ![p] = FALSE]
            /\ UNCHANGED <<state, seen>>
  /\ UNCHANGED <<failureCount, lastFailureTime, consecFailures, notCB>>

\* fn() resolved: the continuation after `await fn()`
FnResolve(p) ==
  /\ cbPc[p] = "running"
  /\ failureCount' = CountAfterSuccess(state, failureCount)
  /\ state' = StateAfterSuccess(state)
  /\ seen' = Note(state, state')
  /\ cbPc' = [cbPc EXCEPT ![p] = "returned"]
  /\ consecFailures' = 0
  /\ UNCHANGED <<lastFailureTime, startedIn, trial, notCB>>

\* fn() rejected: the catch block
FnReject(p) ==
  /\ cbPc[p] = "running"
  /\ failureCount < maxFailures + MaxExtraFailures
  /\ failureCount' = failureCount + 1
  /\ IF Trips(failureCount')
       THEN /\ state' = "OPEN"
            /\ lastFailureTime' = now
       ELSE UNCHANGED <<state, lastFailureTime>>
  /\ seen' = Note(state, state')
  /\ cbPc' = [cbPc EXCEPT ![p] = "threw"]
  /\ consecFailures' = consecFailures + 1
  /\ UNCHANGED <<startedIn, trial, notCB>>

\* the caller has observed the outcome and may call execute again
ExecuteDone(p) ==
  /\ cbPc[p] \in {"returned", "threw", "unavailable"}
  /\ cbPc' = [cbPc EXCEPT ![p] = "idle"]
  /\ startedIn' = [startedIn EXCEPT ![p] = "none"]
  /\ trial' = [trial EXCEPT ![p] = FALSE]
  /\ UNCHANGED <<state, failureCount, lastFailureTime, consecFailures, seen, notCB>>

(***************************************************************************)
(* VideoScraper.scrapeWithRetry(fn, attempts).  One clock tick is the      *)
(* base delay of the backoff (1000 ms).                                    *)
(***************************************************************************)
BaseDelay == 1000

AttemptArgs == -1..MaxAttempts
Errors == {"e1", "e2"}
Values == {"v1"}
Undefined == "undefined"

Backoff_Mut(i) == BaseDelay * i

\* 1000 * (i + 1), the argument of setTimeout
Backoff(i) == BaseDelay * (i + 1)

\* i === attempts - 1
LastAttempt(i, n) == i = n - 1

LoopContinues_Mut(i, n) == i <= n

\* i < attempts, the loop condition
LoopContinues(i, n) == i < n

RetryInit ==
  /\ rPc = "idle"
  /\ rN = 0
  /\ ri = 0
  /\ rCalls = 0
  /\ rErrs = <<>>
  /\ rDelays = <<>>
  /\ rFailAt = 0
  /\ rCallAt = 0
  /\ rWakeAt = 0
  /\ rOut = Undefined

\* the head of the for loop: invoke fn, or fall out of the loop and
\* return undefined
LoopHead(i, n, calls) ==
  IF LoopContinues(i, n)
    THEN /\ rPc' = "calling"
         /\ rCalls' = calls + 1
         /\ rCallAt' = now
    ELSE /\ rPc' = "resolved"
         /\ rCalls' = calls
         /\ rCallAt' = rCallAt

RetryCall(n) ==
  /\ rPc = "idle"
  /\ rN' = n
  /\ ri' = 0
  /\ LoopHead(0, n, 0)
  /\ rOut' = Undefined
  /\ rErrs' = <<>>
  /\ rDelays' = <<>>
  /\ UNCHANGED <<rFailAt, rWakeAt, notRetry>>

\* return await fn()
RetryFnResolve(v) ==
  /\ rPc = "calling"
  /\ rPc' = "resolved"
  /\ rOut' = v
  /\ UNCHANGED <<rN, ri, rCalls, rErrs, rDelays, rFailAt, rCallAt, rWakeAt, notRetry>>

\* the catch block: rethrow on the last attempt, else start the timer
RetryFnReject(e) ==
  /\ rPc = "calling"
  /\ rErrs' = Append(rErrs, e)
  /\ rFailAt' = now
  /\ IF LastAttempt(ri, rN)
       THEN /\ rPc' = "rejected"
            /\ rOut' = e
            /\ UNCHANGED <<rDelays, rWakeAt>>
       ELSE /\ rPc' = "sleeping"
            /\ rDelays' = Append(rDelays, Backoff(ri))
            /\ rWakeAt' = now + (Backoff(ri) \div BaseDelay)
            /\ rOut' = rOut
  /\ UNCHANGED <<rN, ri, rCalls, rCallAt, notRetry>>

\* the timer fired: i++ and back to the head of the loop
RetryWake ==
  /\ rPc = "sleeping"
  /\ now >= rWakeAt
  /\ ri' = ri + 1
  /\ LoopHead(ri + 1, rN, rCalls)
  /\ UNCHANGED <<rN, rErrs, rDelays, rFailAt, rWakeAt, rOut, notRetry>>

\* the caller has observed the outcome; a new call may be made
RetryReturn ==
  /\ rPc \in {"resolved", "rejected"}
  /\ rPc' = "idle"
  /\ UNCHANGED <<rN, ri, rCalls, rErrs, rDelays, rFailAt, rCallAt, rWakeAt, rOut, notRetry>>

(***************************************************************************)
(* The redis result cache, as used by VideoScraper.  One clock tick is     *)
(* CONFIG.CACHE_TTL / CacheTtl seconds.                                    *)
(***************************************************************************)
RETRY_ATTEMPTS == 3

Queries == {"q1"}
Urls == {"u1"}
Sources == <<"9anime", "gogo", "zoro", "crunchyroll">>
SourceNames == {Sources[i] : i \in 1..Len(Sources)}

\* Buffer.from(url).toString('base64')
Base64(u) == <<"b64", u>>

\* `search:${query}`
SearchKey(q) == <<"search", q>>

\* `links:${base64}`
LinksKey(u) == <<"links", Base64(u)>>

Keys == {SearchKey(q) : q \in Queries} \cup {LinksKey(u) : u \in Urls}

\* JSON.stringify of an array: a property whose value is undefined is
\* left out of the text
StringifyItem(it) == IF it.url = Undefined THEN [title |-> it.title] ELSE it

Stringify(v) == [json |-> [k \in 1..Len(v) |-> StringifyItem(v[k])]]

\* JSON.stringify of an array of strings
StringifyLinks(v) == [json |-> v]

\* JSON.parse
Parse(str) == str.json

\* redis drops a key once the clock is past its expiry time
Expired(e, t) == t > e.exp

\* redis.get(key)
NoEntry == [has |-> FALSE, val |-> [json |-> <<>>], exp |-> MaxTime + CacheTtl]

CacheGet_Mut(k) == NoEntry

\* redis.get(key): the stored text, or null (has = FALSE)
CacheGet(k) ==
  IF ~redisStore[k].has \/ Expired(redisStore[k], now)
    THEN NoEntry
    ELSE redisStore[k]

\* redis.set(key, text, 'EX', CONFIG.CACHE_TTL)
CacheSet(k, text) ==
  [redisStore EXCEPT ![k] = [has |-> TRUE, val |-> text, exp |-> now + CacheTtl]]

\* the search page a source scrapes for a query
SourceUrl(s, q) == <<s, q>>

\* the page extractDirectLinks is asked to load
PageUrl(u) == <<"page", u>>

\* what a source's selector yields on its page: one entry; the entry of
\* the last source has no anchor, so attr('href') is undefined
SourceResult(s, q) ==
  << [title |-> s, url |-> IF s = Sources[Len(Sources)] THEN Undefined ELSE "href"] >>

Job(owner, s, k, u) == [owner |-> owner, source |-> s, att |-> k, url |-> u]

NoSrc == [s \in SourceNames |-> [att |-> 0, st |-> "none"]]

FetchInit ==
  /\ redisStore = [k \in Keys |-> NoEntry]
  /\ taskQueue = {}
  /\ circuitBreakers = <<>>
  /\ svlPc = "idle"
  /\ svlQuery = "q1"
  /\ src = NoSrc
  /\ svlOut = <<>>
  /\ svlHit = FALSE
  /\ edlPc = "idle"
  /\ edlUrl = "u1"
  /\ edlOut = <<>>
  /\ edlHit = FALSE

(***************************************************************************)
(* VideoScraper.scrapeVideoLinks(query)                                    *)
(***************************************************************************)
\* redis.get, and on a miss the four scrapeWithRetry calls, each of which
\* invokes its scrape function, which adds a job to the queue
SvlEnter(q) ==
  /\ svlPc = "idle"
  /\ svlQuery' = q
  /\ IF CacheGet(SearchKey(q)).has
       THEN /\ svlPc' = "returned"
            /\ svlHit' = TRUE
            /\ svlOut' = Parse(CacheGet(SearchKey(q)).val)
            /\ src' = NoSrc
            /\ UNCHANGED taskQueue
       ELSE /\ svlPc' = "scraping"
            /\ svlHit' = FALSE
            /\ svlOut' = <<>>
            /\ src' = [s \in SourceNames |-> [att |-> 0, st |-> "pending"]]
            /\ taskQueue' = taskQueue \cup
                 {Job("svl", s, 0, SourceUrl(s, q)) : s \in SourceNames}
  /\ UNCHANGED <<redisStore, circuitBreakers, edlVars, notFetch>>

\* the job of a pending source finished with the page content
SvlJobOk(s) ==
  /\ svlPc = "scraping"
  /\ src[s].st = "pending"
  /\ src' = [src EXCEPT ![s].st = "fulfilled"]
  /\ taskQueue' = taskQueue \ {Job("svl", s, src[s].att, SourceUrl(s, svlQuery))}
  /\ UNCHANGED <<redisStore, circuitBreakers, svlPc, svlQuery, svlOut, svlHit, edlVars, notFetch>>

\* the attempt of a pending source failed: scrapeWithRetry rethrows on the
\* last attempt and otherwise invokes the scrape function again (the
\* backoff sleep between the two is modelled in RetryFnReject / RetryWake)
SvlJobFail(s) ==
  /\ svlPc = "scraping"
  /\ src[s].st = "pending"
  /\ IF LastAttempt(src[s].att, RETRY_ATTEMPTS)
       THEN /\ src' = [src EXCEPT ![s].st = "rejected"]
            /\ taskQueue' = taskQueue \ {Job("svl", s, src[s].att, SourceUrl(s, svlQuery))}
       ELSE /\ src' = [src EXCEPT ![s].att = @ + 1]
            /\ taskQueue' = (taskQueue \ {Job("svl", s, src[s].att, SourceUrl(s, svlQuery))})
                              \cup {Job("svl", s, src[s].att + 1, SourceUrl(s, svlQuery))}
  /\ UNCHANGED <<redisStore, circuitBreakers, svlPc, svlQuery, svlOut, svlHit, edlVars, notFetch>>

RECURSIVE FlatFulfilled(_, _, _)
\* results.filter(r => r.status === 'fulfilled').flatMap(r => r.value)
FlatFulfilled(i, st, q) ==
  IF i > Len(Sources) THEN <<>>
  ELSE (IF st[Sources[i]].st = "fulfilled" THEN SourceResult(Sources[i], q) ELSE <<>>)
         \o FlatFulfilled(i + 1, st, q)

Combined(st, q) == FlatFulfilled(1, st, q)

AllSettled(st) == \A s \in SourceNames : st[s].st \in {"fulfilled", "rejected"}

\* Promise.allSettled resolved: combine, write to the cache, return
SvlSettle ==
  /\ svlPc = "scraping"
  /\ AllSettled(src)
  /\ redisStore' = CacheSet(SearchKey(svlQuery), Stringify(Combined(src, svlQuery)))
  /\ svlOut' = Combined(src, svlQuery)
  /\ svlPc' = "returned"
  /\ UNCHANGED <<taskQueue, circuitBreakers, svlQuery, src, svlHit, edlVars, notFetch>>

\* the caller has the result; a new call may be made
SvlDone ==
  /\ svlPc = "returned"
  /\ svlPc' = "idle"
  /\ src' = NoSrc
  /\ svlOut' = <<>>
  /\ svlHit' = FALSE
  /\ UNCHANGED <<storeVars, svlQuery, edlVars, notFetch>>

(***************************************************************************)
(* VideoScraper.extractDirectLinks(url)                                    *)
(***************************************************************************)
Contents == {"none", "two"}

\* the media links the regular expression finds in the page's scripts,
\* in document order
MatchLinks(c) == IF c = "two" THEN <<"https://h/long.m3u8", "https://h/s.mp4">> ELSE <<>>

LinkLength(l) == IF l = "https://h/s.mp4" THEN 15 ELSE 19

RECURSIVE InsertByLength(_, _)
InsertByLength(l, sorted) ==
  IF sorted = <<>> THEN <<l>>
  ELSE IF LinkLength(l) < LinkLength(Head(sorted))
         THEN <<l>> \o sorted
         ELSE <<Head(sorted)>> \o InsertByLength(l, Tail(sorted))

RECURSIVE SortLinks(_)
SortLinks(links) ==
  IF links = <<>> THEN <<>>
  ELSE InsertByLength(links[Len(links)], SortLinks(SubSeq(links, 1, Len(links) - 1)))

\* links.sort((a, b) => a.length - b.length)
filterAndSortLinks(links) == SortLinks(links)

\* redis.get, and on a miss taskQueue.add({ url })
EdlEnter(u) ==
  /\ edlPc = "idle"
  /\ edlUrl' = u
  /\ IF CacheGet(LinksKey(u)).has
       THEN /\ edlPc' = "returned"
            /\ edlHit' = TRUE
            /\ edlOut' = Parse(CacheGet(LinksKey(u)).val)
            /\ UNCHANGED taskQueue
       ELSE /\ edlPc' = "waiting"
            /\ edlHit' = FALSE
            /\ edlOut' = <<>>
            /\ taskQueue' = taskQueue \cup {Job("edl", "-", 0, PageUrl(u))}
  /\ UNCHANGED <<redisStore, circuitBreakers, svlVars, notFetch>>

\* job.finished() resolved with the page content: extract, sort, cache
EdlJobOk(c) ==
  /\ edlPc = "waiting"
  /\ taskQueue' = taskQueue \ {Job("edl", "-", 0, PageUrl(edlUrl))}
  /\ edlOut' = filterAndSortLinks(MatchLinks(c))
  /\ redisStore' = CacheSet(LinksKey(edlUrl), StringifyLinks(edlOut'))
  /\ edlPc' = "returned"
  /\ UNCHANGED <<circuitBreakers, edlUrl, edlHit, svlVars, notFetch>>

\* job.finished() rejected: extractDirectLinks rejects with the job's error
EdlJobFail ==
  /\ edlPc = "waiting"
  /\ taskQueue' = taskQueue \ {Job("edl", "-", 0, PageUrl(edlUrl))}
  /\ edlPc' = "threw"
  /\ UNCHANGED <<redisStore, circuitBreakers, edlUrl, edlOut, edlHit, svlVars, notFetch>>

EdlDone ==
  /\ edlPc \in {"returned", "threw"}
  /\ edlPc' = "idle"
  /\ edlOut' = <<>>
  /\ edlHit' = FALSE
  /\ UNCHANGED <<storeVars, edlUrl, svlVars, notFetch>>

(***************************************************************************)
(* The cached HianimeAPI.getVideoLinks wrapper (hianime-api.js).  One      *)
(* clock tick is requestDelay (1000 ms).                                   *)
(***************************************************************************)
requestDelay == 1
enableBurstMode == FALSE

HiCallers == 1..NumHiCallers
Episodes == {"ep1", "ep2"}
HiResults == {"links1", "links2"}

\* lastRequestTime: 0 is the epoch, at least requestDelay before any call
Epoch == 0 - requestDelay

NoHiEntry == [has |-> FALSE, val |-> "none"]

HiInit ==
  /\ hiCache = [e \in Episodes |-> NoHiEntry]
  /\ lastRequestTime = Epoch
  /\ hiPc = [p \in HiCallers |-> "idle"]
  /\ hiEp = [p \in HiCallers |-> "ep1"]
  /\ hiWakeAt = [p \in HiCallers |-> 0]
  /\ hiOut = [p \in HiCallers |-> "none"]
  /\ hiStoredAt = [e \in Episodes |-> 0]
  /\ hiStartAt = Epoch

\* Date.now() - thisArg.lastRequestTime < thisArg.requestDelay && !enableBurstMode
MustDelay(t, last) == (t - last < requestDelay) /\ ~enableBurstMode

\* the apply trap up to its first await: cache.has / cache.get, the
\* rate-limit test, and without a delay the invocation of the target
HiCall(p, e) ==
  /\ hiPc[p] = "idle"
  /\ hiEp' = [hiEp EXCEPT ![p] = e]
  /\ IF hiCache[e].has
       THEN /\ hiPc' = [hiPc EXCEPT ![p] = "returned"]
            /\ hiOut' = [hiOut EXCEPT ![p] = hiCache[e].val]
            /\ UNCHANGED <<hiWakeAt, hiStartAt>>
       ELSE IF MustDelay(now, lastRequestTime)
              THEN /\ hiPc' = [hiPc EXCEPT ![p] = "delaying"]
                   /\ hiWakeAt' = [hiWakeAt EXCEPT ![p] = now + requestDelay]
                   /\ UNCHANGED <<hiOut, hiStartAt>>
              ELSE /\ hiPc' = [hiPc EXCEPT ![p] = "fetching"]
                   /\ hiStartAt' = now
                   /\ UNCHANGED <<hiWakeAt, hiOut>>
  /\ UNCHANGED <<hiCache, lastRequestTime, hiStoredAt, notHi>>

\* the rate-limit timer fired: invoke the target
HiWake(p) ==
  /\ hiPc[p] = "delaying"
  /\ now >= hiWakeAt[p]
  /\ hiPc' = [hiPc EXCEPT ![p] = "fetching"]
  /\ hiStartAt' = now
  /\ UNCHANGED <<hiCache, lastRequestTime, hiEp, hiWakeAt, hiOut, hiStoredAt, notHi>>

\* the target resolved (its decryptURLs / fallbackScrape helpers are bound
\* through setConfig): cache.set, lastRequestTime = Date.now(), return
HiFetchOk(p, r) ==
  /\ hiPc[p] = "fetching"
  /\ hiCache' = [hiCache EXCEPT ![hiEp[p]] = [has |-> TRUE, val |-> r]]
  /\ hiStoredAt' = [hiStoredAt EXCEPT ![hiEp[p]] = now]
  /\ lastRequestTime' = now
  /\ hiOut' = [hiOut EXCEPT ![p] = r]
  /\ hiPc' = [hiPc EXCEPT ![p] = "returned"]
  /\ UNCHANGED <<hiEp, hiWakeAt, hiStartAt, notHi>>

HiFetchFail_Mut(p) ==
  /\ hiPc[p] = "fetching"
  /\ hiPc' = [hiPc EXCEPT ![p] = "threw"]
  /\ lastRequestTime' = now
  /\ UNCHANGED <<hiCache, hiEp, hiWakeAt, hiOut, hiStoredAt, hiStartAt, notHi>>

\* the target rejected: the wrapper rejects
HiFetchFail(p) ==
  /\ hiPc[p] = "fetching"
  /\ hiPc' = [hiPc EXCEPT ![p] = "threw"]
  /\ UNCHANGED <<hiCache, lastRequestTime, hiEp, hiWakeAt, hiOut, hiStoredAt, hiStartAt, notHi>>

HiDone(p) ==
  /\ hiPc[p] \in {"returned", "threw"}
  /\ hiPc' = [hiPc EXCEPT ![p] = "idle"]
  /\ hiOut' = [hiOut EXCEPT ![p] = "none"]
  /\ hiEp' = [hiEp EXCEPT ![p] = "ep1"]
  /\ hiWakeAt' = [hiWakeAt EXCEPT ![p] = 0]
  /\ UNCHANGED <<hiCache, lastRequestTime, hiStoredAt, hiStartAt, notHi>>

(***************************************************************************)
(* ProxyManager: one instance, its proxy list, rotation index and health   *)
(* map.  Indices are those of the JavaScript array (from 0).               *)
(***************************************************************************)
\* an entry of a source's proxy list
Entries == [ip : 1..MaxProxies, port : {8080}]

\* `http://${p.ip}:${p.port}`
ProxyUrl(p) == <<"http", p.ip, p.port>>

Addresses == {ProxyUrl(p) : p \in Entries}

\* this.proxies[0] of an empty list
NoProxy == <<"undefined">>

\* what axios.get(url).then(r => r.data) of one source settles with:
\* rejected, fulfilled with a body whose .data is the entry list, or
\* fulfilled with a body that has no .data array (text); the entry lists
\* are those of no entry and of one entry
SourceAnswers ==
  {[st |-> "rejected", data |-> <<>>], [st |-> "text", data |-> <<>>]}
    \cup {[st |-> "list", data |-> d] : d \in {<<>>} \cup {<<e>> : e \in Entries}}

\* .filter(fulfilled).flatMap(r => r.value.data.map(p => url)), from source i on
RECURSIVE FlatMapUrls(_, _)
FlatMapUrls(i, ans) ==
  IF i > Len(ans)
    THEN <<>>
    ELSE (IF ans[i].st # "rejected"
            THEN [k \in 1..Len(ans[i].data) |-> ProxyUrl(ans[i].data[k])]
            ELSE <<>>) \o FlatMapUrls(i + 1, ans)

\* r.value.data.map throws a TypeError on a fulfilled body without .data
fetchFreshProxies(ans) ==
  [threw |-> \E i \in 1..Len(ans) : ans[i].st = "text",
   list  |-> FlatMapUrls(1, ans)]

Contains(list, x) == \E k \in 1..Len(list) : list[k] = x

\* [...new Set(list)]: the first occurrence of each element, in order
RECURSIVE UniqueInOrder(_, _)
UniqueInOrder(list, acc) ==
  IF list = <<>>
    THEN acc
    ELSE UniqueInOrder(Tail(list),
                       IF Contains(acc, Head(list)) THEN acc ELSE Append(acc, Head(list)))

NextIndex_Mut(i, n) == (i + 2) % n

NextIndex(i, n) == (i + 1) % n

\* getNextProxy() from the loop test on, `attempts` iterations made (a call
\* starts with 0): the proxy returned, the new currentIndex and the number
\* of entries looked at
RECURSIVE getNextProxy(_, _, _, _)
getNextProxy(list, h, idx, attempts) ==
  IF attempts < Len(list)
    THEN LET j == NextIndex(idx, Len(list)) IN
         IF h[list[j + 1]] # "dead"
           THEN [proxy |-> list[j + 1], idx |-> j, scanned |-> attempts + 1]
           ELSE getNextProxy(list, h, j, attempts + 1)
    ELSE [proxy |-> IF list = <<>> THEN NoProxy ELSE list[1],
          idx |-> idx, scanned |-> attempts]

\* n getNextProxy calls in a row: the proxies returned and the final index
RECURSIVE CallTimes(_, _, _, _)
CallTimes(list, h, idx, n) ==
  IF n = 0
    THEN [out |-> <<>>, idx |-> idx]
    ELSE LET r == getNextProxy(list, h, idx, 0)
             rest == CallTimes(list, h, r.idx, n - 1) IN
         [out |-> <<r.proxy>> \o rest.out, idx |-> rest.idx]

ProxyInit ==
  /\ proxies = <<>>
  /\ currentIndex = 0
  /\ proxyHealth = [a \in Addresses |-> "unknown"]
  /\ pmOut = NoProxy
  /\ pmScanned = 0
  /\ updSt = "none"
  /\ crPc = "idle"
  /\ crSize = 0
  /\ crLaunch = <<>>
  /\ crProxy = <<>>
  /\ crDone = {}

\* updateProxies(): the sources have settled with ans
UpdateProxies(ans) ==
  LET fresh == fetchFreshProxies(ans) IN
  /\ proxies' = IF fresh.threw THEN proxies ELSE UniqueInOrder(proxies \o fresh.list, <<>>)
  /\ updSt' = IF fresh.threw THEN "rejected" ELSE "resolved"
  /\ pmOut' = IF proxies' = proxies THEN pmOut ELSE NoProxy
  /\ UNCHANGED <<currentIndex, proxyHealth, pmScanned, crVars, notProxy>>

\* checkProxyHealth(): the probe through one listed proxy has ended
CheckProxyHealth(proxy, h) ==
  /\ Contains(proxies, proxy)
  /\ proxyHealth' = [proxyHealth EXCEPT ![proxy] = h]
  /\ pmOut' = IF proxyHealth' = proxyHealth THEN pmOut ELSE NoProxy
  /\ UNCHANGED <<proxies, currentIndex, pmScanned, updSt, crVars, notProxy>>

\* a getNextProxy() call
GetNextProxy ==
  LET r == getNextProxy(proxies, proxyHealth, currentIndex, 0) IN
  /\ currentIndex' = r.idx
  /\ pmOut' = r.proxy
  /\ pmScanned' = r.scanned
  /\ UNCHANGED <<proxies, proxyHealth, updSt, crVars, notProxy>>

(***************************************************************************)
(* BrowserPool.createBrowserPool(size).  The async callbacks of the map    *)
(* run up to their await in array order, so the launch arguments of all    *)
(* handles (with their getNextProxy call) are computed when the call       *)
(* starts; browser._proxy is set as each launch resolves.                  *)
(***************************************************************************)
CreateBegin(size) ==
  LET c == CallTimes(proxies, proxyHealth, currentIndex, size) IN
  /\ crPc = "idle"
  /\ crPc' = IF size = 0 THEN "created" ELSE "launching"
  /\ crSize' = size
  /\ crLaunch' = c.out
  /\ crProxy' = [i \in 1..size |-> NoProxy]
  /\ crDone' = {}
  /\ currentIndex' = c.idx
  /\ pmOut' = IF size = 0 THEN pmOut ELSE c.out[size]
  /\ UNCHANGED <<proxies, proxyHealth, pmScanned, updSt, notProxy>>

\* puppeteer.launch of handle i resolved: browser._proxy = getNextProxy();
\* Promise.all resolves when the last callback has returned its browser
LaunchDone(i) ==
  LET r == getNextProxy(proxies, proxyHealth, currentIndex, 0) IN
  /\ crPc = "launching"
  /\ i \in (1..crSize) \ crDone
  /\ crProxy' = [crProxy EXCEPT ![i] = r.proxy]
  /\ crDone' = crDone \cup {i}
  /\ crPc' = IF crDone' = 1..crSize THEN "created" ELSE "launching"
  /\ currentIndex' = r.idx
  /\ pmOut' = r.proxy
  /\ UNCHANGED <<proxies, proxyHealth, pmScanned, updSt, crSize, crLaunch, notProxy>>

\* puppeteer.launch of handle i rejected: Promise.all rejects
LaunchFail(i) ==
  /\ crPc = "launching"
  /\ i \in (1..crSize) \ crDone
  /\ crPc' = "threw"
  /\ UNCHANGED <<pmVars, crSize, crLaunch, crProxy, crDone, notProxy>>

\* the caller has taken the result; a new call may be made
CreateDone ==
  /\ crPc \in {"created", "threw"}
  /\ crPc' = "idle"
  /\ crSize' = 0
  /\ crLaunch' = <<>>
  /\ crProxy' = <<>>
  /\ crDone' = {}
  /\ UNCHANGED <<pmVars, notProxy>>

(***************************************************************************)
(* BrowserPool.  The module creates two instances (VideoScraper's and the  *)
(* module-level one); each registers a processor on the 'scraping-tasks'   *)
(* queue and a scaleBrowserPool timer, and all of them work on the one     *)
(* module-level browserPool array.  A handle is its creation number; the   *)
(* proxies handles are bound to are in the createBrowserPool model above.  *)
(***************************************************************************)
MAX_CONCURRENT_TASKS == 100

NumPools == 2

Pools == 1..NumPools

Tasks == 1..NumTasks

\* the waiting count scaleBrowserPool reads: an empty queue, a queue at
\* the lower threshold, at the upper threshold, and above it
PendingCounts == {0, MAX_CONCURRENT_TASKS \div 2, MAX_CONCURRENT_TASKS, MAX_CONCURRENT_TASKS + 1}

Min(a, b) == IF a < b THEN a ELSE b

\* the handles createBrowserPool(n) resolves with
NewHandles(n) == [i \in 1..n |-> nextId + i - 1]

\* Bull's state of a job whose processor resolved (ok) or rejected
JobState_Mut(ok) == "active"

JobState(ok) == IF ok THEN "completed" ELSE "failed"

\* init() has resolved on both instances: the array holds the
\* BROWSER_POOL_SIZE handles of the later createBrowserPool
PoolInit ==
  /\ browserPool = [i \in 1..BROWSER_POOL_SIZE |-> i]
  /\ closed = {}
  /\ nextId = BROWSER_POOL_SIZE + 1
  /\ scPc = [k \in Pools |-> "idle"]
  /\ scN = [k \in Pools |-> 0]
  /\ rotPc = "idle"
  /\ jobSt = [t \in Tasks |-> "new"]
  /\ pJob = [k \in Pools |-> 0]
  /\ pBrowser = [k \in Pools |-> 0]
  /\ pPage = [k \in Pools |-> FALSE]
  /\ openPages = 0

\* taskQueue.add(task)
Submit(t) ==
  /\ jobSt[t] = "new"
  /\ jobSt' = [jobSt EXCEPT ![t] = "waiting"]
  /\ UNCHANGED <<browserPool, closed, nextId, scPc, scN, rotPc, pJob, pBrowser, pPage, openPages, notPool>>

\* the processor of instance k (one job at a time) takes a waiting job:
\* getAvailableBrowser() returns browserPool[r] for a random index r and
\* performScrapingTask calls browser.newPage(), which opens a page unless
\* the browser has been closed
Dispatch(k, t, r) ==
  /\ pJob[k] = 0
  /\ jobSt[t] = "waiting"
  /\ r \in 0..(Len(browserPool) - 1)
  /\ jobSt' = [jobSt EXCEPT ![t] = "active"]
  /\ pJob' = [pJob EXCEPT ![k] = t]
  /\ pBrowser' = [pBrowser EXCEPT ![k] = browserPool[r + 1]]
  /\ pPage' = [pPage EXCEPT ![k] = browserPool[r + 1] \notin closed]
  /\ openPages' = IF pPage'[k] THEN openPages + 1 ELSE openPages
  /\ UNCHANGED <<browserPool, closed, nextId, scPc, scN, rotPc, notPool>>

\* performScrapingTask settled: with the page content, or with the error
\* of newPage / goto (the only outcome on a closed browser); the finally
\* block has closed the page if there was one
Finish(k, ok) ==
  /\ pJob[k] # 0
  /\ ok => pBrowser[k] \notin closed
  /\ jobSt' = [jobSt EXCEPT ![pJob[k]] = JobState(ok)]
  /\ pJob' = [pJob EXCEPT ![k] = 0]
  /\ pBrowser' = [pBrowser EXCEPT ![k] = 0]
  /\ pPage' = [pPage EXCEPT ![k] = FALSE]
  /\ openPages' = IF pPage[k] THEN openPages - 1 ELSE openPages
  /\ UNCHANGED <<browserPool, closed, nextId, scPc, scN, rotPc, notPool>>

\* page.setUserAgent rejected: the call stands before the try block, so
\* performScrapingTask rejects and page.close() is not reached
UaFail(k) ==
  /\ pJob[k] # 0
  /\ pPage[k]
  /\ jobSt' = [jobSt EXCEPT ![pJob[k]] = JobState(FALSE)]
  /\ pJob' = [pJob EXCEPT ![k] = 0]
  /\ pBrowser' = [pBrowser EXCEPT ![k] = 0]
  /\ pPage' = [pPage EXCEPT ![k] = FALSE]
  /\ UNCHANGED <<browserPool, closed, nextId, scPc, scN, rotPc, openPages, notPool>>

\* scaleBrowserPool() of instance k with `pending` waiting jobs, up to its
\* await: the grow branch starts createBrowserPool(additionalBrowsers), the
\* shrink branch splices the array and closes what it removed
ScaleBrowserPool(k, pending) ==
  /\ scPc[k] = "idle"
  /\ IF pending > MAX_CONCURRENT_TASKS /\ Len(browserPool) < BROWSER_POOL_SIZE * 2
       THEN /\ scN' = [scN EXCEPT ![k] = Min(BROWSER_POOL_SIZE, pending - Len(browserPool))]
            /\ scPc' = [scPc EXCEPT ![k] = "creating"]
            /\ UNCHANGED <<browserPool, closed>>
       ELSE /\ 2 * pending < MAX_CONCURRENT_TASKS
            /\ Len(browserPool) > BROWSER_POOL_SIZE
            /\ LET n == Len(browserPool) - BROWSER_POOL_SIZE IN
                 /\ browserPool' = SubSeq(browserPool, n + 1, Len(browserPool))
                 /\ closed' = closed \cup {browserPool[i] : i \in 1..n}
            /\ UNCHANGED <<scPc, scN>>
  /\ UNCHANGED <<nextId, rotPc, jobSt, pJob, pBrowser, pPage, openPages, notPool>>

\* createBrowserPool resolved: browserPool = [...browserPool, ...newBrowsers]
ScaleAppend(k) ==
  /\ scPc[k] = "creating"
  /\ nextId + scN[k] - 1 <= MaxHandles
  /\ browserPool' = browserPool \o NewHandles(scN[k])
  /\ nextId' = nextId + scN[k]
  /\ scPc' = [scPc EXCEPT ![k] = "idle"]
  /\ scN' = [scN EXCEPT ![k] = 0]
  /\ UNCHANGED <<closed, rotPc, jobSt, pJob, pBrowser, pPage, openPages, notPool>>

\* rotateProxies(): destroy() calls close() on every handle of the array
RotateBegin ==
  /\ rotPc = "idle"
  /\ closed' = closed \cup {browserPool[i] : i \in 1..Len(browserPool)}
  /\ rotPc' = "creating"
  /\ UNCHANGED <<browserPool, nextId, scPc, scN, jobSt, pJob, pBrowser, pPage, openPages, notPool>>

\* rotateProxies(): browserPool = await createBrowserPool(BROWSER_POOL_SIZE)
RotateEnd ==
  /\ rotPc = "creating"
  /\ nextId + BROWSER_POOL_SIZE - 1 <= MaxHandles
  /\ browserPool' = NewHandles(BROWSER_POOL_SIZE)
  /\ nextId' = nextId + BROWSER_POOL_SIZE
  /\ rotPc' = "idle"
  /\ UNCHANGED <<closed, scPc, scN, jobSt, pJob, pBrowser, pPage, openPages, notPool>>

(***************************************************************************)
(* The cluster master and the depth of the task queue.  Workers add jobs   *)
(* to the Bull queue 'scraping-tasks' and the queue processors take them;  *)
(* the master forks cpuCount workers, replaces every worker that exits     *)
(* and scales the workers list on a 5-second timer.                        *)
(***************************************************************************)
MasterInit ==
  /\ workers = [i \in 1..CpuCount |-> i]
  /\ killed = {}
  /\ nextPid = CpuCount + 1
  /\ waiting = 0

\* taskQueue.add({ url }): Bull stores the job and resolves; the limiter
\* option of the constructor bounds the rate at which jobs are processed,
\* not the number of jobs that wait
QueueAdd ==
  /\ waiting < MAX_CONCURRENT_TASKS + MaxOver
  /\ waiting' = waiting + 1
  /\ UNCHANGED <<workers, killed, nextPid, baseVars, jkVars, rlVars, userVars>>

\* a queue processor takes the next waiting job
QueueTake ==
  /\ waiting > 0
  /\ waiting' = waiting - 1
  /\ UNCHANGED <<workers, killed, nextPid, baseVars, jkVars, rlVars, userVars>>

\* cluster.on('exit'): worker w, crashed or killed, has exited
WorkerExit(w) ==
  /\ w \in killed \cup {workers[i] : i \in 1..Len(workers)}
  /\ nextPid <= CpuCount + MaxForks
  /\ workers' = Append(SelectSeq(workers, LAMBDA x : x # w), nextPid)
  /\ nextPid' = nextPid + 1
  /\ killed' = killed \ {w}
  /\ UNCHANGED <<waiting, baseVars, jkVars, rlVars, userVars>>

\* the setInterval callback.  counted: the value read into queueSize is
\* the number of waiting jobs; otherwise it is undefined (.waiting of the
\* Promise that getJobCounts() returns) and both comparisons are false
ScaleTick(counted) ==
  /\ IF counted /\ waiting > MAX_CONCURRENT_TASKS /\ Len(workers) < CpuCount * 2
     THEN /\ nextPid <= CpuCount + MaxForks
          /\ workers' = Append(workers, nextPid)
          /\ nextPid' = nextPid + 1
          /\ UNCHANGED killed
     ELSE IF counted /\ 2 * waiting < MAX_CONCURRENT_TASKS /\ Len(workers) > CpuCount
     THEN /\ workers' = SubSeq(workers, 1, Len(workers) - 1)
          /\ killed' = killed \cup {workers[Len(workers)]}
          /\ UNCHANGED nextPid
     ELSE UNCHANGED <<workers, killed, nextPid>>
  /\ UNCHANGED <<waiting, baseVars, jkVars, rlVars, userVars>>

(***************************************************************************)
(* JikanService.request(endpoint, retries) of service.js, with its         *)
(* module-level NodeCache.  Callers are concurrent async calls.            *)
(***************************************************************************)
Endpoints == {"/anime/1", "/top/anime"}

\* what axios.get rejects with: message and response status
AxiosErrors == {[message |-> "timeout", status |-> "undefined"],
                [message |-> "Request failed", status |-> "500"]}

\* new JikanApiError(error.message, error.response?.status, endpoint)
JikanApiError(error, endpoint) ==
  [name |-> "JikanApiError", message |-> error.message,
   statusCode |-> error.status, endpoint |-> endpoint]

JikanInit ==
  /\ jkCache = [e \in Endpoints |-> "none"]
  /\ jkPc = [p \in Callers |-> "idle"]
  /\ jkEp = [p \in Callers |-> "/anime/1"]
  /\ jkArg = [p \in Callers |-> 0]
  /\ jkLeft = [p \in Callers |-> 0]
  /\ jkFails = [p \in Callers |-> 0]
  /\ jkErr = [p \in Callers |-> [message |-> "", status |-> ""]]
  /\ jkOut = [p \in Callers |-> "none"]

\* the catch block retries while retries > 0
CanRetry_Mut(retries) == retries > 1

CanRetry(retries) == retries > 0

\* the call has returned: its arguments and locals are gone
Returned(p, data) ==
  /\ jkPc' = [jkPc EXCEPT ![p] = "returned"]
  /\ jkOut' = [jkOut EXCEPT ![p] = data]
  /\ jkEp' = [jkEp EXCEPT ![p] = "/anime/1"]
  /\ jkArg' = [jkArg EXCEPT ![p] = 0]
  /\ jkLeft' = [jkLeft EXCEPT ![p] = 0]
  /\ jkFails' = [jkFails EXCEPT ![p] = 0]
  /\ jkErr' = [jkErr EXCEPT ![p] = [message |-> "", status |-> ""]]

\* request(endpoint, retries) up to its first await: cache.get, and on a
\* miss the call of limiter.schedule
JkRequest(p, endpoint, retries) ==
  /\ jkPc[p] # "fetching"
  /\ IF jkCache[endpoint] # "none"
     THEN Returned(p, jkCache[endpoint])
     ELSE /\ jkPc' = [jkPc EXCEPT ![p] = "fetching"]
          /\ jkOut' = [jkOut EXCEPT ![p] = "none"]
          /\ jkEp' = [jkEp EXCEPT ![p] = endpoint]
          /\ jkArg' = [jkArg EXCEPT ![p] = retries]
          /\ jkLeft' = [jkLeft EXCEPT ![p] = retries]
          /\ jkFails' = [jkFails EXCEPT ![p] = 0]
          /\ jkErr' = [jkErr EXCEPT ![p] = [message |-> "", status |-> ""]]
  /\ UNCHANGED <<jkCache, baseVars, masterVars, rlVars, userVars>>

\* axios.get resolved: cache.set and return response.data
JkResolve(p) ==
  /\ jkPc[p] = "fetching"
  /\ jkCache' = [jkCache EXCEPT ![jkEp[p]] = "data"]
  /\ Returned(p, "data")
  /\ UNCHANGED <<baseVars, masterVars, rlVars, userVars>>

\* axios.get rejected: the catch block either calls request(endpoint,
\* retries - 1), which reads the cache again before it fetches, or throws
JkReject(p, error) ==
  /\ jkPc[p] = "fetching"
  /\ IF CanRetry(jkLeft[p])
     THEN IF jkCache[jkEp[p]] # "none"
          THEN Returned(p, jkCache[jkEp[p]])
          ELSE /\ jkLeft' = [jkLeft EXCEPT ![p] = @ - 1]
               /\ jkFails' = [jkFails EXCEPT ![p] = @ + 1]
               /\ jkErr' = [jkErr EXCEPT ![p] = error]
               /\ UNCHANGED <<jkPc, jkOut, jkEp, jkArg>>
     ELSE /\ jkPc' = [jkPc EXCEPT ![p] = "thrown"]
          /\ jkOut' = [jkOut EXCEPT ![p] = JikanApiError(error, jkEp[p])]
          /\ jkFails' = [jkFails EXCEPT ![p] = @ + 1]
          /\ jkErr' = [jkErr EXCEPT ![p] = error]
          /\ UNCHANGED <<jkLeft, jkEp, jkArg>>
  /\ UNCHANGED <<jkCache, baseVars, masterVars, rlVars, userVars>>

(***************************************************************************)
(* The rate-limiting middleware, for the requests of one client ip.  One   *)
(* clock tick is one unit of the window; RATE_LIMIT and WINDOW_SIZE are    *)
(* scaled down.  Redis executes INCR atomically and drops the key when     *)
(* its expiry time has passed; the reply of INCR and the continuation of   *)
(* the middleware are one step.                                            *)
(***************************************************************************)
RateInit ==
  /\ rlCount = 0
  /\ rlExpireAt = 0
  /\ rlPending = FALSE
  /\ rlPassed = 0
  /\ rlDenied = 0

\* the key rate_limit:<ip> exists
KeyLive == rlCount > 0 /\ (rlExpireAt = 0 \/ now < rlExpireAt)

\* currentRequests > CONFIG.RATE_LIMIT
OverLimit_Mut(currentRequests) == currentRequests > RATE_LIMIT + 1

OverLimit(currentRequests) == currentRequests > RATE_LIMIT

\* a request enters the middleware: redis.incr(key); the request that
\* creates the key goes on to redis.expire, any other is answered 429 or
\* passed to next()
RlRequest ==
  /\ rlCount < RATE_LIMIT + MaxOver \/ ~KeyLive
  /\ IF KeyLive
     THEN /\ rlCount' = rlCount + 1
          /\ IF OverLimit(rlCount + 1)
             THEN rlDenied' = rlDenied + 1 /\ UNCHANGED rlPassed
             ELSE rlPassed' = rlPassed + 1 /\ UNCHANGED rlDenied
          /\ UNCHANGED <<rlExpireAt, rlPending>>
     ELSE /\ rlCount' = 1
          /\ rlExpireAt' = 0
          /\ rlPending' = TRUE
          /\ rlPassed' = 0
          /\ rlDenied' = 0
  /\ UNCHANGED <<baseVars, masterVars, jkVars, userVars>>

\* redis.expire(key, WINDOW_SIZE / 1000) of the request that created the
\* key has settled: the expiry is set and the request goes on (a count of
\* 1 is not over the limit), or the await rejects and the middleware
\* throws with the key left without expiry
RlExpire(ok) ==
  /\ rlPending
  /\ rlPending' = FALSE
  /\ IF ok
     THEN /\ rlExpireAt' = now + WINDOW_SIZE
          /\ IF OverLimit(1)
             THEN rlDenied' = rlDenied + 1 /\ UNCHANGED rlPassed
             ELSE rlPassed' = rlPassed + 1 /\ UNCHANGED rlDenied
     ELSE UNCHANGED <<rlExpireAt, rlPassed, rlDenied>>
  /\ UNCHANGED <<rlCount, baseVars, masterVars, jkVars, userVars>>

(***************************************************************************)
(* The account lock of the user model (user.js).  The record lives in the  *)
(* database; every caller holds an in-memory document loaded at some       *)
(* earlier time, and updateOne changes the record, not the document.  The  *)
(* lock time of one hour is scaled to LockTime clock ticks.                *)
(***************************************************************************)
MaxLoginAttempts == 5

UserInit ==
  /\ loginAttempts = 0
  /\ lockUntil = 0
  /\ docAttempts = [c \in Callers |-> 0]
  /\ docLockUntil = [c \in Callers |-> 0]
  /\ cmpOut = "none"

\* User.findOne(...): the caller's document is the record as it is now
UserLoad(c) ==
  /\ docAttempts' = [docAttempts EXCEPT ![c] = loginAttempts]
  /\ docLockUntil' = [docLockUntil EXCEPT ![c] = lockUntil]
  /\ UNCHANGED <<loginAttempts, lockUntil, cmpOut, baseVars, masterVars, jkVars, rlVars>>

\* incrementLoginAttempts(): the update is chosen from the document and
\* applied to the record
IncrementLoginAttempts(c) ==
  /\ loginAttempts < MaxLoginAttempts + MaxOver
  /\ IF docLockUntil[c] # 0 /\ docLockUntil[c] < now
     THEN /\ loginAttempts' = 1
          /\ lockUntil' = 0
     ELSE /\ loginAttempts' = loginAttempts + 1
          /\ lockUntil' = IF docAttempts[c] + 1 >= MaxLoginAttempts
                          THEN now + LockTime
                          ELSE lockUntil
  /\ UNCHANGED <<docAttempts, docLockUntil, cmpOut, baseVars, masterVars, jkVars, rlVars>>

\* comparePassword(candidate): isLocked is read off the document
ComparePassword(c) ==
  /\ cmpOut' = IF docLockUntil[c] # 0 /\ docLockUntil[c] > now
               THEN "Account temporarily locked"
               ELSE "compared"
  /\ UNCHANGED <<loginAttempts, lockUntil, docAttempts, docLockUntil, baseVars, masterVars, jkVars, rlVars>>

\* redis deletes the keys whose expiry time has passed
Sweep(t) == [k \in Keys |-> IF Expired(redisStore[k], t) THEN NoEntry ELSE redisStore[k]]

Tick ==
  /\ now < MaxTime
  /\ now' = now + 1
  /\ redisStore' = Sweep(now + 1)
  /\ UNCHANGED <<cbVars, retryVars, taskQueue, circuitBreakers, svlVars, edlVars, hiVars, pmVars, crVars, poolVars, lateVars>>

\* the clock of the cache model stops at MaxFetchTime
FetchTick == now < MaxFetchTime /\ Tick

Init ==
  /\ now = 0
  /\ CBInit
  /\ RetryInit
  /\ FetchInit
  /\ HiInit
  /\ ProxyInit
  /\ PoolInit
  /\ MasterInit
  /\ JikanInit
  /\ RateInit
  /\ UserInit

NextCB ==
  \/ Tick
  \/ \E p \in Callers : ExecuteEnter(p)
  \/ \E p \in Callers : FnResolve(p)
  \/ \E p \in Callers : FnReject(p)
  \/ \E p \in Callers : ExecuteDone(p)

SpecCB == Init /\ [][NextCB]_vars

NextRetry ==
  \/ Tick
  \/ \E n \in AttemptArgs : RetryCall(n)
  \/ \E v \in Values : RetryFnResolve(v)
  \/ \E e \in Errors : RetryFnReject(e)
  \/ RetryWake
  \/ RetryReturn

SpecRetry == Init /\ [][NextRetry]_vars

NextFetch ==
  \/ FetchTick
  \/ \E q \in Queries : SvlEnter(q)
  \/ \E s \in SourceNames : SvlJobOk(s)
  \/ \E s \in SourceNames : SvlJobFail(s)
  \/ SvlSettle
  \/ SvlDone
  \/ \E u \in Urls : EdlEnter(u)
  \/ \E c \in Contents : EdlJobOk(c)
  \/ EdlJobFail
  \/ EdlDone

SpecFetch == Init /\ [][NextFetch]_vars

NextHi ==
  \/ FetchTick
  \/ \E p \in HiCallers, e \in Episodes : HiCall(p, e)
  \/ \E p \in HiCallers : HiWake(p)
  \/ \E p \in HiCallers, r \in HiResults : HiFetchOk(p, r)
  \/ \E p \in HiCallers : HiFetchFail(p)
  \/ \E p \in HiCallers : HiDone(p)

SpecHi == Init /\ [][NextHi]_vars

NextProxy ==
  \/ \E a \in SourceAnswers, b \in SourceAnswers : UpdateProxies(<<a, b>>)
  \/ \E a \in Addresses, h \in {"healthy", "dead"} : CheckProxyHealth(a, h)
  \/ GetNextProxy

SpecProxy == Init /\ [][NextProxy]_vars

NextCreate ==
  \/ \E a \in SourceAnswers, b \in SourceAnswers : UpdateProxies(<<a, b>>)
  \/ \E a \in Addresses, h \in {"healthy", "dead"} : CheckProxyHealth(a, h)
  \/ \E n \in 0..MaxCreate : CreateBegin(n)
  \/ \E i \in 1..MaxCreate : LaunchDone(i)
  \/ \E i \in 1..MaxCreate : LaunchFail(i)
  \/ CreateDone

SpecCreate == Init /\ [][NextCreate]_vars

NextPool ==
  \/ \E t \in Tasks : Submit(t)
  \/ \E k \in Pools, t \in Tasks, r \in 0..(MaxHandles - 1) : Dispatch(k, t, r)
  \/ \E k \in Pools, ok \in BOOLEAN : Finish(k, ok)
  \/ \E k \in Pools : UaFail(k)
  \/ \E k \in Pools, pending \in PendingCounts : ScaleBrowserPool(k, pending)
  \/ \E k \in Pools : ScaleAppend(k)
  \/ RotateBegin
  \/ RotateEnd

SpecPool == Init /\ [][NextPool]_vars

\* the load case: tasks are submitted and processed while the pool is
\* neither scaled nor rotated; every await of a running job settles
NextLoad ==
  \/ \E t \in Tasks : Submit(t)
  \/ \E k \in Pools, t \in Tasks, r \in 0..(MaxHandles - 1) : Dispatch(k, t, r)
  \/ \E k \in Pools, ok \in BOOLEAN : Finish(k, ok)
  \/ \E k \in Pools : UaFail(k)

SpecLoad ==
  /\ Init
  /\ [][NextLoad]_vars
  /\ \A k \in Pools : WF_vars(\E t \in Tasks, r \in 0..(MaxHandles - 1) : Dispatch(k, t, r))
  /\ \A k \in Pools : WF_vars(\E ok \in BOOLEAN : Finish(k, ok))

NextMaster ==
  \/ QueueAdd
  \/ QueueTake
  \/ \E w \in 1..(CpuCount + MaxForks) : WorkerExit(w)
  \/ \E counted \in BOOLEAN : ScaleTick(counted)

SpecMaster == Init /\ [][NextMaster]_vars

NextJikan ==
  \/ \E p \in Callers, e \in Endpoints, n \in 0..MaxRetries : JkRequest(p, e, n)
  \/ \E p \in Callers : JkResolve(p)
  \/ \E p \in Callers, error \in AxiosErrors : JkReject(p, error)

SpecJikan == Init /\ [][NextJikan]_vars

NextRate ==
  \/ Tick
  \/ RlRequest
  \/ \E ok \in BOOLEAN : RlExpire(ok)

SpecRate == Init /\ [][NextRate]_vars

NextUser ==
  \/ Tick
  \/ \E c \in Callers : UserLoad(c)
  \/ \E c \in Callers : IncrementLoginAttempts(c)
  \/ \E c \in Callers : ComparePassword(c)

SpecUser == Init /\ [][NextUser]_vars

(***************************************************************************)
(* Properties of the CircuitBreaker                                        *)
(***************************************************************************)
InFlight(p) == cbPc[p] = "running"

Enters(p) == cbPc[p] = "idle" /\ cbPc'[p] # "idle"

\* C1: the failed execution that makes maxFailures consecutive failures
\* leaves the breaker OPEN, and an execute(fn) entered while the time since
\* lastFailureTime is at most cooldownPeriod throws 'Service unavailable'
\* without invoking fn (the call never gets its fn in flight).
C1_OpenRejectsWithinCooldown ==
  [][ /\ (consecFailures' # consecFailures /\ consecFailures' >= maxFailures)
           => state' = "OPEN"
      /\ \A p \in Callers :
           (/\ Enters(p)
            /\ lastFailureTime # Null
            /\ now - lastFailureTime <= cooldownPeriod)
           => (cbPc'[p] = "unavailable" /\ ~InFlight(p)') ]_vars

C1_Witness ==
  /\ consecFailures >= maxFailures
  /\ state = "OPEN"
  /\ now - lastFailureTime <= cooldownPeriod
  /\ \E p \in Callers : cbPc[p] = "unavailable"

\* C2: while the trial call of a HALF_OPEN breaker is in flight, no other
\* execute(fn) call gets to invoke its fn.
C2_SingleTrial ==
  [][ (state = "HALF_OPEN" /\ \E q \in Callers : InFlight(q) /\ trial[q])
        => \A p \in Callers : ~(Enters(p) /\ InFlight(p)') ]_vars

\* C3: when the HALF_OPEN trial settles, a success leaves the breaker
\* CLOSED with failureCount = 0 and a failure leaves it OPEN with
\* lastFailureTime equal to the time of the failure.
C3_TrialDecides ==
  [][ \A p \in Callers :
        (InFlight(p) /\ trial[p]) =>
          /\ cbPc'[p] = "returned" => (state' = "CLOSED" /\ failureCount' = 0)
          /\ cbPc'[p] = "threw" => (state' = "OPEN" /\ lastFailureTime' = now)
    ]_vars

\* C4: the breaker leaves CLOSED for OPEN only when maxFailures failures
\* have happened with no successful execution between them.
C4_ConsecutiveOnly ==
  [][ (state = "CLOSED" /\ state' = "OPEN")
        => consecFailures' >= maxFailures ]_vars

AllowedMoves ==
  { <<"CLOSED", "OPEN">>, <<"OPEN", "HALF_OPEN">>,
    <<"HALF_OPEN", "CLOSED">>, <<"HALF_OPEN", "OPEN">> }

\* C5: every change of the breaker's state is one of CLOSED -> OPEN,
\* OPEN -> HALF_OPEN, HALF_OPEN -> CLOSED, HALF_OPEN -> OPEN.
C5_OnlyAllowedMoves ==
  [][ state' # state => <<state, state'>> \in AllowedMoves ]_vars

\* all four moves have happened, and a call that began before the breaker
\* opened is settling successfully on the OPEN breaker
C5_Witness ==
  /\ seen = AllowedMoves
  /\ state = "OPEN"
  /\ \E p \in Callers : InFlight(p) /\ startedIn[p] = "CLOSED"

(***************************************************************************)
(* Properties of scrapeWithRetry                                           *)
(***************************************************************************)
AtMost(n) == IF n > 0 THEN n ELSE 0

\* C9: scrapeWithRetry(fn, N) invokes fn at most N times; the delay after
\* the k-th failed attempt (k < N) is k * 1000 ms and the next attempt does
\* not start before it has passed; when all N attempts failed the call
\* rejects with the error of the N-th attempt.
C9_RetryBackoffLastError ==
  /\ rCalls <= AtMost(rN)
  /\ \A k \in 1..Len(rDelays) : k < rN /\ rDelays[k] = k * 1000
  /\ rPc = "sleeping" => Len(rDelays) = Len(rErrs)
  /\ (rPc = "calling" /\ rCalls >= 2) =>
        /\ Len(rDelays) = rCalls - 1
        /\ (rCallAt - rFailAt) * BaseDelay >= (rCalls - 1) * 1000
  /\ (rPc \in {"resolved", "rejected"} /\ Len(rErrs) = rN /\ rN > 0) =>
        /\ rPc = "rejected"
        /\ rCalls = rN
        /\ rOut = rErrs[rN]
  /\ rPc = "rejected" => Len(rErrs) = rN

C9_Witness ==
  /\ rPc = "rejected"
  /\ rN = 3
  /\ rCalls = 3
  /\ rDelays = <<1000, 2000>>
  /\ rErrs = <<"e1", "e1", "e2">>
  /\ rOut = "e2"

(***************************************************************************)
(* Properties of the cached fetch paths                                    *)
(***************************************************************************)
Target(url) == url[1]

\* C6: a job is added to the task queue only after the breaker of the
\* job's target has been consulted (and so exists in circuitBreakers), and
\* never while that breaker is open.
C6_BreakerGatesWork ==
  [][ \A j \in taskQueue' \ taskQueue :
        /\ Target(j.url) \in DOMAIN circuitBreakers'
        /\ circuitBreakers'[Target(j.url)] # "OPEN" ]_vars

Unexpired(k) == redisStore[k].has /\ now <= redisStore[k].exp

SvlCalled == svlPc = "idle" /\ svlPc' # "idle"

EdlCalled == edlPc = "idle" /\ edlPc' # "idle"

\* C7: a scrapeVideoLinks or extractDirectLinks call whose cache key holds
\* an unexpired entry returns the parsed cached text, adds no job to the
\* queue, starts no scrape function and leaves the cache as it is.
C7_HitTouchesNothing ==
  [][ /\ (SvlCalled /\ Unexpired(SearchKey(svlQuery'))) =>
           /\ svlPc' = "returned"
           /\ svlOut' = Parse(redisStore[SearchKey(svlQuery')].val)
           /\ \A s \in SourceNames : src'[s].st = "none"
           /\ taskQueue' = taskQueue
           /\ redisStore' = redisStore
      /\ (EdlCalled /\ Unexpired(LinksKey(edlUrl'))) =>
           /\ edlPc' = "returned"
           /\ edlOut' = Parse(redisStore[LinksKey(edlUrl')].val)
           /\ taskQueue' = taskQueue
           /\ redisStore' = redisStore ]_vars

C7_Witness ==
  /\ svlPc = "returned" /\ svlHit /\ Len(svlOut) = 2
  /\ edlPc = "returned" /\ edlHit /\ Len(edlOut) = 2
  /\ now = redisStore[SearchKey(svlQuery)].exp

\* C8: no cached fetch path returns a stored value later than its
\* time-to-live after it was stored (here: the getVideoLinks wrapper,
\* with the time-to-live of the result cache).
C8_NoStaleValue ==
  [][ \A p \in HiCallers :
        (hiPc[p] = "idle" /\ hiPc'[p] = "returned")
          => now <= hiStoredAt[hiEp'[p]] + CacheTtl ]_vars

AllExhausted == \A s \in SourceNames : src[s].st = "rejected" /\ src[s].att = RETRY_ATTEMPTS - 1

\* C10: a scrapeVideoLinks call in which every source exhausted its
\* retries does not resolve with a result.
C10_ExhaustionRejects == AllExhausted => svlPc # "returned"

\* C11: a cache entry is created only after a successful fetch: a
\* scrapeVideoLinks call in which every source exhausted its retries
\* writes no entry for its key.
C11_FailedFetchWritesNothing ==
  [][ (svlPc = "scraping" /\ AllExhausted)
        => (redisStore'[SearchKey(svlQuery)].has => redisStore[SearchKey(svlQuery)].has) ]_vars

\* C12: for calls with the same cache key at most one upstream fetch is
\* in flight at any time (here: the getVideoLinks wrapper, keyed by the
\* episode id).
C12_OneFetchPerKey ==
  \A e \in Episodes :
    Cardinality({p \in HiCallers : hiPc[p] = "fetching" /\ hiEp[p] = e}) <= 1

\* C18: createBrowserPool(size) returns exactly size handles and the
\* proxy recorded on each handle (browser._proxy) is the proxy its
\* browser was launched with.
C18_HandleKeepsLaunchProxy ==
  crPc = "created" =>
    /\ Len(crProxy) = crSize
    /\ \A i \in 1..crSize : crProxy[i] = crLaunch[i]

\* C19: with the list and the health map unchanged since the previous
\* call, getNextProxy() looks at no more entries than the list has; while
\* some entry is not dead it returns an entry that is not dead, the first
\* such entry after the previously returned one in list order with
\* wrap-around; when every entry is dead it returns the first entry.
\* (live: positions of the entries not marked dead; steps(a, b): entries
\* passed from position a to position b, a itself after a full round.)
C19_NextLiveProxyInOrder ==
  [][ GetNextProxy =>
        LET n == Len(proxies)
            live == {k \in 1..n : proxyHealth[proxies[k]] # "dead"}
            pos(x) == CHOOSE k \in 1..n : proxies[k] = x
            steps(a, b) == ((b - a - 1 + n) % n) + 1 IN
        /\ pmScanned' <= n
        /\ live # {} =>
             /\ \E k \in live : pmOut' = proxies[k]
             /\ pmOut # NoProxy =>
                  \A k \in live : steps(pos(pmOut), pos(pmOut')) <= steps(pos(pmOut), k)
        /\ (live = {} /\ n > 0) => pmOut' = proxies[1] ]_vars

\* a call that passed a dead entry and wrapped around to the head of a
\* list of three or more
C19_Witness ==
  /\ Len(proxies) >= 3
  /\ pmScanned >= 2
  /\ currentIndex = 0
  /\ pmOut = proxies[1]
  /\ proxyHealth[pmOut] # "dead"

\* C20: whatever the sources answer (a failure, a malformed payload, a
\* list), updateProxies() completes, keeps every proxy it knew, adds the
\* proxies of every source that answered with a list, and leaves no
\* address twice in the list.
C20_UpdateFailsSoft ==
  [][ \A a \in SourceAnswers, b \in SourceAnswers :
        UpdateProxies(<<a, b>>) =>
          /\ updSt' = "resolved"
          /\ \A k \in 1..Len(proxies) : Contains(proxies', proxies[k])
          /\ \A x \in {a, b} :
               x.st = "list" => \A k \in 1..Len(x.data) : Contains(proxies', ProxyUrl(x.data[k]))
          /\ \A i, j \in 1..Len(proxies') : i # j => proxies'[i] # proxies'[j] ]_vars

C23_OpenImpliesTripped ==
  state \in {"OPEN", "HALF_OPEN"} => (failureCount >= maxFailures /\ lastFailureTime # Null)

\* the breaker is HALF_OPEN while a call that started when it was CLOSED
\* is still running
C23_Witness ==
  /\ state = "HALF_OPEN"
  /\ \E p \in Callers : cbPc[p] = "running" /\ startedIn[p] = "CLOSED"

\* C24: scrapeWithRetry(fn, N) invokes fn once per failed attempt plus
\* once for the attempt that succeeds and never again after a success, so
\* exactly min(N, j) times for a first success at attempt j; without a
\* success it invokes fn N times, and for N <= 0 zero times, resolving
\* with undefined.
C24_InvocationCount ==
  /\ rPc = "calling" => rCalls = Len(rErrs) + 1
  /\ rPc \in {"sleeping", "rejected"} => rCalls = Len(rErrs)
  /\ (rPc = "resolved" /\ rOut # Undefined) => (rCalls = Len(rErrs) + 1 /\ rCalls <= rN)
  /\ rPc = "rejected" => rCalls = rN
  /\ (rN <= 0 /\ rPc # "idle") => (rPc = "resolved" /\ rCalls = 0 /\ rOut = Undefined)

\* a call with three attempts that succeeded at the second
C24_Witness ==
  /\ rPc = "resolved"
  /\ rN = 3
  /\ rCalls = 2
  /\ Len(rErrs) = 1
  /\ rOut = "v1"

\* C26: in the getVideoLinks wrapper a call whose upstream fetch throws
\* leaves the cache and lastRequestTime as they are, and a call served
\* from the cache starts no upstream fetch and leaves lastRequestTime as
\* it is.
C26_FailureAndHitFrame ==
  [][ \A p \in HiCallers :
        /\ (hiPc[p] = "fetching" /\ hiPc'[p] = "threw")
             => (hiCache' = hiCache /\ lastRequestTime' = lastRequestTime)
        /\ (hiPc[p] = "idle" /\ hiPc'[p] # "idle" /\ hiCache[hiEp'[p]].has)
             => /\ hiPc'[p] = "returned"
                /\ hiOut'[p] = hiCache[hiEp'[p]].val
                /\ hiStartAt' = hiStartAt
                /\ hiCache' = hiCache
                /\ lastRequestTime' = lastRequestTime ]_vars

\* a call has thrown on an episode that is not cached, after a fetch of
\* the other episode had been cached
C26_Witness ==
  \E p \in HiCallers, e \in Episodes :
    /\ hiPc[p] = "threw"
    /\ ~hiCache[hiEp[p]].has
    /\ hiCache[e].has
    /\ lastRequestTime >= 0

\* C27: with enableBurstMode false the starts of any two upstream fetches
\* of the getVideoLinks wrapper are at least requestDelay apart.
C27_FetchStartsSpaced ==
  [][ \A p \in HiCallers :
        (hiPc[p] # "fetching" /\ hiPc'[p] = "fetching") => now - hiStartAt >= requestDelay ]_vars

\* C25: every page opened by performScrapingTask is closed by the time
\* the task settles: the pages that are open are those of the tasks that
\* are still running.
C25_PagesClosed ==
  openPages = Cardinality({k \in Pools : pJob[k] # 0 /\ pPage[k]})

\* C21: the task queue applies backpressure: a task is accepted only
\* while the queue depth is below MAX_CONCURRENT_TASKS, so the number of
\* pending tasks never exceeds MAX_CONCURRENT_TASKS.
C21_QueueDepthBounded == waiting <= MAX_CONCURRENT_TASKS

C22_ThrowsAfterAllRetries ==
  /\ [](\A p \in Callers :
         jkPc[p] = "thrown" =>
           /\ jkFails[p] = jkArg[p] + 1
           /\ jkOut[p] = [name |-> "JikanApiError", message |-> jkErr[p].message,
                          statusCode |-> jkErr[p].status, endpoint |-> jkEp[p]])
  /\ [][\A p \in Callers :
          jkPc[p] = "fetching" /\ jkPc'[p] = "thrown" => jkCache' = jkCache]_vars

\* a call with retries left has thrown while another call has filled the
\* cache of a different endpoint
C22_Witness ==
  \E p \in Callers :
    /\ jkPc[p] = "thrown"
    /\ jkArg[p] = MaxRetries
    /\ \E e \in Endpoints : jkCache[e] # "none"

\* C28: between the creation of the key rate_limit:<ip> and its expiry
\* the middleware passes at most RATE_LIMIT requests of that ip to
\* next(); every further request in that window is answered 429 and not
\* passed on.
C28_AtMostRateLimitPassed ==
  /\ [](rlPassed <= RATE_LIMIT)
  /\ [][RlRequest /\ KeyLive /\ rlCount >= RATE_LIMIT =>
          rlDenied' = rlDenied + 1 /\ rlPassed' = rlPassed]_vars

\* a second key: after the first window has expired, RATE_LIMIT requests
\* were passed again and a further one was answered 429
C28_Witness ==
  /\ now > WINDOW_SIZE
  /\ KeyLive
  /\ rlExpireAt > WINDOW_SIZE + 1
  /\ rlPassed = RATE_LIMIT
  /\ rlDenied > 0

\* C29: under any interleaving of incrementLoginAttempts calls issued
\* from possibly stale documents, the stored record has lockUntil set
\* whenever loginAttempts >= 5; and while lockUntil is in the future
\* comparePassword throws 'Account temporarily locked' without comparing.
C29_LockedFromFiveAttempts ==
  /\ [](loginAttempts >= MaxLoginAttempts => lockUntil # 0)
  /\ [][\A c \in Callers :
          ComparePassword(c) /\ docLockUntil[c] > now =>
            cmpOut' = "Account temporarily locked"]_vars

====
